---- MODULE Spec2Model ----
(***************************************************************************)
(* Execution Interface (src/src/claude/cli_interface.py) and Workspace     *)
(* Manager (src/src/claude/workspace_manager.py) of helios-stack, as a     *)
(* state machine.  One asyncio event loop drives every coroutine: a step   *)
(* of the model is what one coroutine does between two of its awaits, or   *)
(* one event of an external OS process.                                    *)
(***************************************************************************)
EXTENDS Integers, Sequences, FiniteSets, TLC

(* ------------------------------ bounds -------------------------------- *)
\* Tasks (execute calls) in one behaviour, over all callers: a batch has
\* up to NumTasks prompts.
NumTasks == 3

\* create_workspace calls in one behaviour.
NumCreates == 2

(* ------------------------- program constants -------------------------- *)
DefaultTimeout == 300
CliPath == "claude"

Tasks == 1..NumTasks
\* Two callers use the interface in one behaviour, each with an
\* execute_batch call or a direct execute call.
Batches == {1, 2}
Direct == 0
\* An Optional[int]: << >> is None, <<n>> is the integer n.
NoneArg == << >>
TimeoutArgs == {NoneArg, <<0>>, <<30>>}
\* The concurrency limits, as configured and as max_concurrent argument.
Limits == {1, 2}
LimitArgs == {NoneArg} \cup {<<n>> : n \in Limits}
\* Exit codes of the CLI.
ExitCodes == {0, 1}
SIGKILL == -9
\* Prompts are texts, sequences of characters; among them texts with a
\* blank and with a quote.
DirectPrompts == {<<"h", "i">>, <<"a", " ", "'">>}
ProbeOutcomes == {"ok", "nonzero", "missing", "timeout"}
\* test_connection: its prompt, its timeout, and the text it looks for.
ConnectionPrompt ==
    <<"Say", " ", "'", "Connection", " ", "test", " ", "successful", "'">>
ConnectionTimeout == 10
Expected == "successful"
\* What the CLI may write to its standard output: texts in pieces, a
\* piece being a run of characters that is never divided here.
Outputs ==
    {<< >>, <<"Connection", " ", "test", " ", "successful">>, <<"SUCCESSFUL">>,
     <<"un", "successful">>, <<"success">>, <<"Failed">>}
\* No test_connection call has ended yet.
NoConnection == << >>

Creates == 1..NumCreates
\* The cleanup_workspace calls of one behaviour, whoever makes them.
Cleanups == {1, 2}
\* How a git command ends: exit code 0, another exit code, or
\* _run_command raising because the process could not be created.
GitOutcomes == {"ok", "nonzero", "raise"}
\* The outcomes of a git command that could be started.
GitExits == {"ok", "nonzero"}
\* How the caller's block of isolated_workspace is left.
Exits == {"normal", "return", "raise"}
\* Agent names: plain file-name components.
Agents == {"alpha", "beta"}
\* The values uuid.uuid4().hex[:8] can take.
Suffixes == {"0a", "0b"}
\* An Optional[bool]: << >> is None.
BoolArgs == {NoneArg, <<TRUE>>, <<FALSE>>}
\* Path(".claude/agents"), the project's agent directory, and the values
\* of config.agent_dir: the user's directory, or the project's.
ProjectAgents == ".claude/agents"
AgentDirs == {"~/.claude/agents", ProjectAgents}
\* File names as <<stem, suffix>>.
FileNames == {<<"scout", "md">>, <<"critic", "md">>, <<"notes", "txt">>}
\* What is at the place of an agent directory: nothing (<< >>), or a
\* directory <<names>> with the files of these names.
NoDir == << >>
AgentDirStates == {NoDir} \cup {<<names>> : names \in SUBSET FileNames}

VARIABLES
    dry_run,        \* config.dry_run
    max_concurrent, \* config.claude.max_concurrent
    iface,          \* "unbuilt" | "ready" | "notfound": ClaudeInterface.__init__
    probes,         \* version probes run by _verify_claude_available
    probed,         \* how the last version probe ended, "none" before it
    connection,     \* what the last test_connection call ended with
    nextTask,       \* next unused task id
    owner,          \* task -> the batch it is an entry of, or Direct
    prompt,         \* task -> the prompt argument of its execute call
    timeout_arg,    \* task -> the timeout argument of its execute call
    timeout,        \* task -> the timeout its execute call uses
    pc,             \* task -> where its coroutine is suspended
    proc,           \* task -> its OS process: "none" | "running" | "killed" | "exited"
    returncode,     \* task -> process.returncode (None until the process exits)
    outcome,        \* task -> what its execute call ended with
    bstate,         \* batch -> "idle" | "gathering" | "returned" | "raised" | "cancelled"
    entries,        \* batch -> its tasks, in the order of the prompts list
    limit,          \* batch -> the initial value of its semaphore
    permits,        \* batch -> semaphore._value
    waiters,        \* batch -> semaphore._waiters (FIFO)
    completed,      \* batch -> its tasks in the order they completed
    returned,       \* batch -> the list execute_batch returned
    use_worktrees,  \* config.workspace.use_worktrees
    cleanup_on_exit, \* config.workspace.cleanup_on_exit
    is_git,         \* the current directory is a git repository
    agent_dir,      \* config.agent_dir
    agent_files,    \* agent directory -> what is at its place on disk
    active_workspaces, \* WorkspaceManager.active_workspaces: id -> path
    fs,             \* the directories on disk: path -> what it holds
    branches,       \* the branches of the repository
    cw,             \* create_workspace call -> its coroutine's state
    cl,             \* cleanup_workspace call -> its coroutine's state
    ca,             \* the cleanup_all call: its coroutine's state
    listed          \* the list a list_active_workspaces call returned

cfgVars == <<dry_run, max_concurrent>>
ifaceVars == <<iface, probes, probed, connection>>
callVars == <<nextTask, owner, prompt, timeout_arg, timeout>>
batchVars == <<bstate, entries, limit, returned>>
execVars == <<cfgVars, ifaceVars, callVars, pc, proc, returncode, outcome,
              batchVars, permits, waiters, completed>>

envVars == <<use_worktrees, cleanup_on_exit, is_git, agent_dir, agent_files>>
wsVars == <<envVars, active_workspaces, fs, branches, cw, cl, ca, listed>>

vars == <<execVars, wsVars>>

(* ------------------------------ helpers ------------------------------- *)
\* Python truthiness of an Optional[int]: None and 0 are falsy.
Truthy(opt) == opt # NoneArg /\ opt[1] # 0

\* `x or default` for an Optional[int] x.
OrDefault(opt, default) == IF Truthy(opt) THEN opt[1] ELSE default

\* A mutant: the command line is handed to a shell, which divides the
\* prompt at its first blank.
_build_command_shell(text) ==
    LET blanks == {i \in 1..Len(text) : text[i] = " "}
    IN IF blanks = {} THEN <<CliPath, "-p", text>>
       ELSE LET i == CHOOSE j \in blanks : \A k \in blanks : j <= k
            IN <<CliPath, "-p", SubSeq(text, 1, i - 1),
                 SubSeq(text, i + 1, Len(text))>>

\* _build_command: [cli_path, "-p", prompt]
_build_command(text) == <<CliPath, "-p", text>>

Outcome(k, ok, rc, secs, cmd) ==
    [kind |-> k, success |-> ok, exit_code |-> rc, timeout_seconds |-> secs,
     command |-> cmd]

NoOutcome == Outcome("none", FALSE, 0, 0, << >>)

\* A mutant: a non-zero exit raises ClaudeExecutionError.
ClaudeResult_raising(rc, cmd) ==
    IF rc = 0 THEN Outcome("ClaudeResult", TRUE, rc, 0, cmd)
    ELSE Outcome("ClaudeExecutionError", FALSE, rc, 0, << >>)

\* ClaudeResult(success=process.returncode == 0,
\*              exit_code=process.returncode, command=' '.join(cmd), ...)
ClaudeResult(rc, cmd) == Outcome("ClaudeResult", rc = 0, rc, 0, cmd)

\* The dry-run result: success=True, exit_code=0.
DryRunResult(cmd) == Outcome("ClaudeResult", TRUE, 0, 0, cmd)

\* ClaudeTimeoutError(..., timeout_seconds=timeout)
ClaudeTimeoutError(secs) == Outcome("ClaudeTimeoutError", FALSE, 0, secs, << >>)

\* What create_subprocess_exec raises when the binary cannot be started.
OSError == Outcome("OSError", FALSE, 0, 0, << >>)

CancelledError == Outcome("CancelledError", FALSE, 0, 0, << >>)

Range(s) == {s[i] : i \in 1..Len(s)}

RECURSIVE SumOver(_, _)
SumOver(f, S) ==
    IF S = {} THEN 0
    ELSE LET x == CHOOSE y \in S : TRUE IN f[x] + SumOver(f, S \ {x})

\* The places where a task is suspended inside execute.
Suspended == {"creating", "sleeping", "communicate", "killing"}

\* The entries of batch b that hold one of its permits.
Holders(b) == {t \in Range(entries[b]) : pc[t] \in Suspended}

\* The tasks whose external process is alive.
Alive == {t \in Tasks : proc[t] \in {"running", "killed"}}

\* The tasks inside execute with their external process alive.
Running == {t \in Alive : pc[t] \in Suspended}

\* The entries of batch b with a permit and an external process in flight.
InFlight(b) == Holders(b) \cap Alive

DirectCalls == {t \in Tasks : pc[t] # "free" /\ owner[t] = Direct}

NumCalls ==
    Cardinality(DirectCalls) + Cardinality({b \in Batches : bstate[b] # "idle"})

(* ------------------------------- Init --------------------------------- *)
ExecInit ==
    /\ iface = "unbuilt"
    /\ probes = 0
    /\ probed = "none"
    /\ connection = NoConnection
    /\ nextTask = 1
    /\ owner = [t \in Tasks |-> Direct]
    /\ prompt = [t \in Tasks |-> << >>]
    /\ timeout_arg = [t \in Tasks |-> NoneArg]
    /\ timeout = [t \in Tasks |-> 0]
    /\ pc = [t \in Tasks |-> "free"]
    /\ proc = [t \in Tasks |-> "none"]
    /\ returncode = [t \in Tasks |-> NoneArg]
    /\ outcome = [t \in Tasks |-> NoOutcome]
    /\ bstate = [b \in Batches |-> "idle"]
    /\ entries = [b \in Batches |-> << >>]
    /\ limit = [b \in Batches |-> 0]
    /\ permits = [b \in Batches |-> 0]
    /\ waiters = [b \in Batches |-> << >>]
    /\ completed = [b \in Batches |-> << >>]
    /\ returned = [b \in Batches |-> << >>]

\* The workspace manager before any call, with no workspace on disk.
WsIdle ==
    /\ use_worktrees = TRUE
    /\ cleanup_on_exit = TRUE
    /\ is_git = TRUE
    /\ agent_dir = "~/.claude/agents"
    /\ agent_files = [dir \in AgentDirs |-> NoDir]
    /\ active_workspaces = << >>
    /\ fs = << >>
    /\ branches = {}
    /\ cw = << >>
    /\ cl = << >>
    /\ ca = << >>
    /\ listed = << >>

\* The execution interface, beside an idle workspace manager.
Init ==
    /\ dry_run \in BOOLEAN
    /\ max_concurrent \in Limits
    /\ ExecInit
    /\ WsIdle

(* ---------------------- ClaudeInterface.__init__ ---------------------- *)
\* A mutant: a probe that fails is tried a second time.
_verify_claude_available_retrying(probe) ==
    IF dry_run
    THEN /\ iface' = "ready"
         /\ UNCHANGED <<probes, probed>>
    ELSE /\ probes' = IF probe = "ok" THEN probes + 1 ELSE probes + 2
         /\ probed' = probe
         /\ iface' = IF probe = "ok" THEN "ready" ELSE "notfound"

\* _verify_claude_available: skipped in dry-run mode; otherwise one
\* `cli --version` probe, and anything but exit code 0 (a non-zero exit, a
\* missing binary, a probe that times out) raises ClaudeNotFoundError.
_verify_claude_available(probe) ==
    IF dry_run
    THEN /\ iface' = "ready"
         /\ UNCHANGED <<probes, probed>>
    ELSE /\ probes' = probes + 1
         /\ probed' = probe
         /\ iface' = IF probe = "ok" THEN "ready" ELSE "notfound"

Construct ==
    /\ iface = "unbuilt"
    /\ \E probe \in ProbeOutcomes : _verify_claude_available(probe)
    /\ UNCHANGED <<connection, cfgVars, callVars, pc, proc, returncode, outcome, batchVars,
                   permits, waiters, completed, wsVars>>

(* ------------------------------ execute ------------------------------- *)
\* A mutant: dry-run mode is not consulted.
FirstAwait_spawning == "creating"

\* execute up to its first await: asyncio.sleep in dry-run mode, else
\* create_subprocess_exec.
FirstAwait == IF dry_run THEN "sleeping" ELSE "creating"

\* A mutant: the permit is released after a return only, as with
\* acquire() and release() around the call and no try/finally.
Finish_leaking(t, o) ==
    /\ pc' = [pc EXCEPT ![t] = "done"]
    /\ outcome' = [outcome EXCEPT ![t] = o]
    /\ IF owner[t] = Direct
       THEN UNCHANGED <<permits, completed>>
       ELSE /\ permits' = [permits EXCEPT ![owner[t]] =
                              IF o.kind = "ClaudeResult" THEN @ + 1 ELSE @]
            /\ completed' = [completed EXCEPT ![owner[t]] = Append(@, t)]

\* The end of a task's execute call with outcome o.  A batch entry leaves
\* `async with semaphore`, which releases its permit, whether execute
\* returned or raised.
Finish(t, o) ==
    /\ pc' = [pc EXCEPT ![t] = "done"]
    /\ outcome' = [outcome EXCEPT ![t] = o]
    /\ IF owner[t] = Direct
       THEN UNCHANGED <<permits, completed>>
       ELSE /\ permits' = [permits EXCEPT ![owner[t]] = @ + 1]
            /\ completed' = [completed EXCEPT ![owner[t]] = Append(@, t)]

\* A direct call of execute(prompt, timeout=arg).
execute(p, arg) ==
    /\ iface = "ready"
    /\ nextTask <= NumTasks
    /\ NumCalls < Cardinality(Batches)
    /\ pc' = [pc EXCEPT ![nextTask] = FirstAwait]
    /\ prompt' = [prompt EXCEPT ![nextTask] = p]
    /\ timeout_arg' = [timeout_arg EXCEPT ![nextTask] = arg]
    /\ timeout' = [timeout EXCEPT ![nextTask] = OrDefault(arg, DefaultTimeout)]
    /\ nextTask' = nextTask + 1
    /\ UNCHANGED <<cfgVars, ifaceVars, owner, proc, returncode, outcome,
                   batchVars, permits, waiters, completed, wsVars>>

\* Dry run: the sleep ends and the simulated result is returned.
SleepDone(t) ==
    /\ pc[t] = "sleeping"
    /\ Finish(t, DryRunResult(_build_command(prompt[t])))
    /\ UNCHANGED <<cfgVars, ifaceVars, callVars, proc, returncode, batchVars,
                   waiters, wsVars>>

\* create_subprocess_exec returns: the process runs and execute awaits
\* wait_for(process.communicate(), timeout).
ProcessCreated(t) ==
    /\ pc[t] = "creating"
    /\ pc' = [pc EXCEPT ![t] = "communicate"]
    /\ proc' = [proc EXCEPT ![t] = "running"]
    /\ UNCHANGED <<cfgVars, ifaceVars, callVars, returncode, outcome,
                   batchVars, permits, waiters, completed, wsVars>>

\* create_subprocess_exec raises: logged and re-raised by `except Exception`.
ProcessCreationFails(t) ==
    /\ pc[t] = "creating"
    /\ Finish(t, OSError)
    /\ UNCHANGED <<cfgVars, ifaceVars, callVars, proc, returncode, batchVars,
                   waiters, wsVars>>

\* The process exits with code rc.  A task awaiting communicate() resumes
\* and returns the result; the process of a task that no longer awaits it
\* just exits.
ProcessExits(t, rc) ==
    /\ proc[t] = "running"
    /\ proc' = [proc EXCEPT ![t] = "exited"]
    /\ returncode' = [returncode EXCEPT ![t] = <<rc>>]
    /\ IF pc[t] = "communicate"
       THEN Finish(t, ClaudeResult(rc, _build_command(prompt[t])))
       ELSE UNCHANGED <<pc, outcome, permits, completed>>
    /\ UNCHANGED <<cfgVars, ifaceVars, callVars, batchVars, waiters, wsVars>>

\* A mutant: the timeout handler kills the process and raises without
\* awaiting process.wait().
TimeoutExpires_nowait(t) ==
    /\ pc[t] = "communicate"
    /\ proc[t] = "running"
    /\ proc' = [proc EXCEPT ![t] = "killed"]
    /\ Finish(t, ClaudeTimeoutError(timeout[t]))
    /\ UNCHANGED <<cfgVars, ifaceVars, callVars, returncode, batchVars,
                   waiters, wsVars>>

\* A mutant: the timeout handler kills every running process of the
\* interface, not the one of its own call.
TimeoutExpires_killall(t) ==
    /\ pc[t] = "communicate"
    /\ proc[t] = "running"
    /\ proc' = [u \in Tasks |-> IF proc[u] = "running" THEN "killed" ELSE proc[u]]
    /\ pc' = [pc EXCEPT ![t] = "killing"]
    /\ UNCHANGED <<cfgVars, ifaceVars, callVars, returncode, outcome,
                   batchVars, permits, waiters, completed, wsVars>>

\* wait_for times out before the process has exited:
\* `except asyncio.TimeoutError` kills the process and awaits
\* process.wait().
TimeoutExpires(t) ==
    /\ pc[t] = "communicate"
    /\ proc[t] = "running"
    /\ proc' = [proc EXCEPT ![t] = "killed"]
    /\ pc' = [pc EXCEPT ![t] = "killing"]
    /\ UNCHANGED <<cfgVars, ifaceVars, callVars, returncode, outcome,
                   batchVars, permits, waiters, completed, wsVars>>

\* A killed process dies.  A task awaiting process.wait() resumes and
\* raises ClaudeTimeoutError(timeout_seconds=timeout); a task that awaited
\* communicate() (its process was killed from elsewhere) gets the result.
ProcessDies(t) ==
    /\ proc[t] = "killed"
    /\ proc' = [proc EXCEPT ![t] = "exited"]
    /\ returncode' = [returncode EXCEPT ![t] = <<SIGKILL>>]
    /\ IF pc[t] = "killing"
       THEN Finish(t, ClaudeTimeoutError(timeout[t]))
       ELSE IF pc[t] = "communicate"
       THEN Finish(t, ClaudeResult(SIGKILL, _build_command(prompt[t])))
       ELSE UNCHANGED <<pc, outcome, permits, completed>>
    /\ UNCHANGED <<cfgVars, ifaceVars, callVars, batchVars, waiters, wsVars>>

\* The task awaiting a direct execute call is cancelled: CancelledError is
\* thrown into the await.  It is a BaseException: neither
\* `except asyncio.TimeoutError` nor `except Exception` handles it, and
\* execute has no finally clause.
Cancel(t) ==
    /\ owner[t] = Direct
    /\ pc[t] \in Suspended
    /\ Finish(t, CancelledError)
    /\ UNCHANGED <<cfgVars, ifaceVars, callVars, proc, returncode, batchVars,
                   waiters, wsVars>>

(* -------------------- execute_sync, test_connection ------------------- *)
\* ' '.join(cmd) for the three elements of cmd, the prompt being a text.
Joined(cmd) == <<cmd[1], " ", cmd[2], " ">> \o cmd[3]

\* str.lower() of a piece and of a text.
LowerPiece(piece) ==
    CASE piece = "SUCCESSFUL" -> "successful"
      [] piece = "Connection" -> "connection"
      [] piece = "Say" -> "say"
      [] piece = "Failed" -> "failed"
      [] piece = "[DRY RUN] Would execute: " -> "[dry run] would execute: "
      [] OTHER -> piece

Lower(text) == [i \in 1..Len(text) |-> LowerPiece(text[i])]

\* `piece in text`
Contains(text, piece) == \E i \in 1..Len(text) : text[i] = piece

\* result.output of the result o of an execute call whose process wrote
\* `out`: the decoded standard output, or the dry-run message.
Output(o, out) ==
    IF dry_run THEN <<"[DRY RUN] Would execute: ">> \o Joined(o.command)
    ELSE out

\* A mutant: test_connection without its except clause.
Connected_uncaught(t, o, out) ==
    IF o.kind = "ClaudeResult"
    THEN [call |-> t, kind |-> "return", output |-> Output(o, out),
          value |-> o.success /\ Contains(Lower(Output(o, out)), Expected)]
    ELSE [call |-> t, kind |-> "raise", output |-> << >>, value |-> FALSE]

\* The body of test_connection once execute_sync has ended with o:
\* `result.success and "successful" in result.output.lower()` for a
\* result, False for anything `except Exception` catches.
Connected(t, o, out) ==
    IF o.kind = "ClaudeResult"
    THEN [call |-> t, kind |-> "return", output |-> Output(o, out),
          value |-> o.success /\ Contains(Lower(Output(o, out)), Expected)]
    ELSE [call |-> t, kind |-> "return", output |-> << >>, value |-> FALSE]

\* The test_connection calls made so far have all ended.
ConnectionsEnded ==
    nextTask = 1 \/ (connection # NoConnection /\ connection.call = nextTask - 1)

\* test_connection() is called: execute_sync runs
\* execute("Say 'Connection test successful'", timeout=10) to its end on
\* the event loop.
test_connection ==
    /\ ConnectionsEnded
    /\ execute(ConnectionPrompt, <<ConnectionTimeout>>)

\* execute has ended in the test_connection call: run_until_complete
\* returns its result or raises its exception, and test_connection
\* returns.
test_connection_returns(out) ==
    /\ ~ConnectionsEnded
    /\ pc[nextTask - 1] = "done"
    /\ connection' = Connected(nextTask - 1, outcome[nextTask - 1], out)
    /\ UNCHANGED <<cfgVars, iface, probes, probed, callVars, pc, proc,
                   returncode, outcome, batchVars, permits, waiters,
                   completed, wsVars>>

(* --------------------------- execute_batch ---------------------------- *)
\* The prompts lists of m entries a caller passes.
PromptLists(m) == {[i \in 1..m |-> <<"q", " ", ToString(i)>>]}

\* A mutant: the semaphore is created one permit too large.
execute_batch_wide(b, ps, arg) ==
    /\ iface = "ready"
    /\ bstate[b] = "idle"
    /\ NumCalls < Cardinality(Batches)
    /\ \A a \in Batches : a < b => bstate[a] # "idle"
    /\ nextTask + Len(ps) - 1 <= NumTasks
    /\ LET new == nextTask..(nextTask + Len(ps) - 1)
           n == OrDefault(arg, max_concurrent)
       IN /\ entries' = [entries EXCEPT ![b] = [i \in 1..Len(ps) |-> nextTask + i - 1]]
          /\ owner' = [t \in Tasks |-> IF t \in new THEN b ELSE owner[t]]
          /\ pc' = [t \in Tasks |-> IF t \in new THEN "start" ELSE pc[t]]
          /\ prompt' = [t \in Tasks |-> IF t \in new THEN ps[t - nextTask + 1]
                                        ELSE prompt[t]]
          /\ timeout_arg' = [t \in Tasks |-> IF t \in new THEN NoneArg
                                             ELSE timeout_arg[t]]
          /\ timeout' = [t \in Tasks |-> IF t \in new
                                         THEN OrDefault(NoneArg, DefaultTimeout)
                                         ELSE timeout[t]]
          /\ limit' = [limit EXCEPT ![b] = n]
          /\ permits' = [permits EXCEPT ![b] = n + 1]
    /\ bstate' = [bstate EXCEPT ![b] = "gathering"]
    /\ nextTask' = nextTask + Len(ps)
    /\ UNCHANGED <<cfgVars, ifaceVars, proc, returncode, outcome, returned,
                   waiters, completed, wsVars>>

\* execute_batch(prompts, max_concurrent=arg): a semaphore of
\* `max_concurrent or config.claude.max_concurrent` permits and one
\* run_with_semaphore task per prompt, in the order of the list; each
\* task calls execute(prompt, workspace), so with the default timeout.
execute_batch(b, ps, arg) ==
    /\ iface = "ready"
    /\ bstate[b] = "idle"
    /\ NumCalls < Cardinality(Batches)
    /\ \A a \in Batches : a < b => bstate[a] # "idle"
    /\ nextTask + Len(ps) - 1 <= NumTasks
    /\ LET new == nextTask..(nextTask + Len(ps) - 1)
           n == OrDefault(arg, max_concurrent)
       IN /\ entries' = [entries EXCEPT ![b] = [i \in 1..Len(ps) |-> nextTask + i - 1]]
          /\ owner' = [t \in Tasks |-> IF t \in new THEN b ELSE owner[t]]
          /\ pc' = [t \in Tasks |-> IF t \in new THEN "start" ELSE pc[t]]
          /\ prompt' = [t \in Tasks |-> IF t \in new THEN ps[t - nextTask + 1]
                                        ELSE prompt[t]]
          /\ timeout_arg' = [t \in Tasks |-> IF t \in new THEN NoneArg
                                             ELSE timeout_arg[t]]
          /\ timeout' = [t \in Tasks |-> IF t \in new
                                         THEN OrDefault(NoneArg, DefaultTimeout)
                                         ELSE timeout[t]]
          /\ limit' = [limit EXCEPT ![b] = n]
          /\ permits' = [permits EXCEPT ![b] = n]
    /\ bstate' = [bstate EXCEPT ![b] = "gathering"]
    /\ nextTask' = nextTask + Len(ps)
    /\ UNCHANGED <<cfgVars, ifaceVars, proc, returncode, outcome, returned,
                   waiters, completed, wsVars>>

\* Semaphore.locked(): no permit left, or somebody already waits.
Locked(b) == permits[b] = 0 \/ waiters[b] # << >>

\* A mutant: the task calls execute without `async with semaphore`.
run_with_semaphore_unguarded(t) ==
    /\ pc[t] = "start"
    /\ \A u \in Range(entries[owner[t]]) : u < t => pc[u] # "start"
    /\ permits' = [permits EXCEPT ![owner[t]] = @ - 1]
    /\ pc' = [pc EXCEPT ![t] = FirstAwait]
    /\ UNCHANGED <<cfgVars, ifaceVars, callVars, proc, returncode, outcome,
                   batchVars, waiters, completed, wsVars>>

\* The first step of a run_with_semaphore task: `async with semaphore`
\* takes a permit without suspending when the semaphore is not locked and
\* goes on into execute; otherwise the task joins the FIFO of waiters.
\* gather starts the tasks in the order of the list.
run_with_semaphore(t) ==
    /\ pc[t] = "start"
    /\ \A u \in Range(entries[owner[t]]) : u < t => pc[u] # "start"
    /\ IF Locked(owner[t])
       THEN /\ waiters' = [waiters EXCEPT ![owner[t]] = Append(@, t)]
            /\ pc' = [pc EXCEPT ![t] = "waiting"]
            /\ UNCHANGED permits
       ELSE /\ permits' = [permits EXCEPT ![owner[t]] = @ - 1]
            /\ pc' = [pc EXCEPT ![t] = FirstAwait]
            /\ UNCHANGED waiters
    /\ UNCHANGED <<cfgVars, ifaceVars, callVars, proc, returncode, outcome,
                   batchVars, completed, wsVars>>

\* A released permit wakes the first waiter, which takes the permit and
\* goes on into execute.
WakeUp(t) ==
    /\ pc[t] = "waiting"
    /\ waiters[owner[t]] # << >>
    /\ Head(waiters[owner[t]]) = t
    /\ permits[owner[t]] > 0
    /\ permits' = [permits EXCEPT ![owner[t]] = @ - 1]
    /\ waiters' = [waiters EXCEPT ![owner[t]] = Tail(@)]
    /\ pc' = [pc EXCEPT ![t] = FirstAwait]
    /\ UNCHANGED <<cfgVars, ifaceVars, callVars, proc, returncode, outcome,
                   batchVars, completed, wsVars>>

Raised(o) == o.kind \notin {"none", "ClaudeResult"}

\* A mutant: gather without return_exceptions=True raises the first
\* exception of a task to the caller of execute_batch.
gather_raising(b) ==
    /\ bstate[b] = "gathering"
    /\ \/ /\ \E t \in Range(entries[b]) : pc[t] = "done" /\ Raised(outcome[t])
          /\ bstate' = [bstate EXCEPT ![b] = "raised"]
          /\ UNCHANGED returned
       \/ /\ \A t \in Range(entries[b]) : pc[t] = "done" /\ ~Raised(outcome[t])
          /\ returned' = [returned EXCEPT ![b] =
                             [i \in 1..Len(entries[b]) |-> outcome[entries[b][i]]]]
          /\ bstate' = [bstate EXCEPT ![b] = "returned"]
    /\ UNCHANGED <<cfgVars, ifaceVars, callVars, pc, proc, returncode, outcome,
                   entries, limit, permits, waiters, completed, wsVars>>

\* A mutant: the results are collected in the order of completion.
gather_as_completed(b) ==
    /\ bstate[b] = "gathering"
    /\ \A t \in Range(entries[b]) : pc[t] = "done"
    /\ returned' = [returned EXCEPT ![b] =
                       [i \in 1..Len(completed[b]) |-> outcome[completed[b][i]]]]
    /\ bstate' = [bstate EXCEPT ![b] = "returned"]
    /\ UNCHANGED <<cfgVars, ifaceVars, callVars, pc, proc, returncode, outcome,
                   entries, limit, permits, waiters, completed, wsVars>>

\* asyncio.gather(*tasks, return_exceptions=True): done when every task is
\* done; the list holds, at the position of each task, its result or the
\* exception it raised.
gather(b) ==
    /\ bstate[b] = "gathering"
    /\ \A t \in Range(entries[b]) : pc[t] = "done"
    /\ returned' = [returned EXCEPT ![b] =
                       [i \in 1..Len(entries[b]) |-> outcome[entries[b][i]]]]
    /\ bstate' = [bstate EXCEPT ![b] = "returned"]
    /\ UNCHANGED <<cfgVars, ifaceVars, callVars, pc, proc, returncode, outcome,
                   entries, limit, permits, waiters, completed, wsVars>>

\* The task awaiting execute_batch is cancelled: gather cancels every child
\* that is not done (each leaves `async with semaphore`, or the FIFO of
\* waiters) and execute_batch raises CancelledError.
CancelBatch(b) ==
    /\ bstate[b] = "gathering"
    /\ LET live == {t \in Range(entries[b]) : pc[t] # "done"}
       IN /\ pc' = [t \in Tasks |-> IF t \in live THEN "done" ELSE pc[t]]
          /\ outcome' = [t \in Tasks |-> IF t \in live THEN CancelledError
                                         ELSE outcome[t]]
          /\ permits' = [permits EXCEPT ![b] = @ + Cardinality(live \cap Holders(b))]
    /\ waiters' = [waiters EXCEPT ![b] = << >>]
    /\ bstate' = [bstate EXCEPT ![b] = "cancelled"]
    /\ UNCHANGED <<cfgVars, ifaceVars, callVars, proc, returncode, entries,
                   limit, returned, completed, wsVars>>

(* ------------------------------- Next --------------------------------- *)
Next ==
    \/ Construct
    \/ \E p \in DirectPrompts, arg \in TimeoutArgs : execute(p, arg)
    \/ \E b \in Batches, m \in 1..NumTasks, arg \in LimitArgs :
          \E ps \in PromptLists(m) : execute_batch(b, ps, arg)
    \/ \E t \in Tasks : run_with_semaphore(t)
    \/ \E t \in Tasks : WakeUp(t)
    \/ \E t \in Tasks : SleepDone(t)
    \/ \E t \in Tasks : ProcessCreated(t)
    \/ \E t \in Tasks : ProcessCreationFails(t)
    \/ \E t \in Tasks, rc \in ExitCodes : ProcessExits(t, rc)
    \/ \E t \in Tasks : TimeoutExpires(t)
    \/ \E t \in Tasks : ProcessDies(t)
    \/ \E t \in Tasks : Cancel(t)
    \/ \E b \in Batches : gather(b)
    \/ \E b \in Batches : CancelBatch(b)

Spec == Init /\ [][Next]_vars

\* The steps of task t that the event loop takes once they are possible:
\* a ready coroutine is resumed, create_subprocess_exec returns or
\* raises, and the timer of asyncio.sleep or of wait_for fires.
Scheduled(t) ==
    \/ run_with_semaphore(t)
    \/ WakeUp(t)
    \/ SleepDone(t)
    \/ ProcessCreated(t)
    \/ ProcessCreationFails(t)
    \/ TimeoutExpires(t)

\* The interface on an event loop that keeps running.  Nothing is assumed
\* of the callers or of the external processes: a process may never exit
\* by itself, and a killed one may never die.
FairSpec ==
    /\ Spec
    /\ \A t \in Tasks : WF_vars(Scheduled(t))
    /\ \A b \in Batches : WF_vars(gather(b))

\* A caller that constructs the interface and calls test_connection, one
\* call after the other.
ConnNext ==
    \/ Construct
    \/ test_connection
    \/ \E t \in Tasks : SleepDone(t)
    \/ \E t \in Tasks : ProcessCreated(t)
    \/ \E t \in Tasks : ProcessCreationFails(t)
    \/ \E t \in Tasks, rc \in ExitCodes : ProcessExits(t, rc)
    \/ \E t \in Tasks : TimeoutExpires(t)
    \/ \E t \in Tasks : ProcessDies(t)
    \/ \E out \in Outputs : test_connection_returns(out)

ConnSpec == Init /\ [][ConnNext]_vars

(* ------------------------- WorkspaceManager --------------------------- *)
\* A mutant: the id is the prefix, the agent name and a timestamp that
\* concurrent calls share.
WorkspaceId_timestamp(agent, suffix) == <<agent, "now">>

\* workspace_id = f"{worktree_prefix}{agent_name}_{uuid4().hex[:8]}": the
\* prefix is fixed and the suffix has a fixed length, so the id is the
\* pair of the agent name and the suffix.
WorkspaceId(agent, suffix) == <<agent, suffix>>

\* config.workspace.base_dir / workspace_id
BasePath(id) == [parent |-> "base_dir", name |-> id]

NoPath == [parent |-> "", name |-> << >>]

\* A directory as mkdir leaves it, and what the manager puts into it:
\* a .git file, the .claude/agents subdirectory, and in it the agent
\* definitions, file name -> content (a copy has the content of its
\* original, <<directory, name>>).
EmptyDir == [git_file |-> FALSE, agents_dir |-> FALSE, agents |-> << >>]

Exists(path) == path \in DOMAIN fs

\* fs with directory `path` holding `what`.
WithDir(f, path, what) ==
    [q \in DOMAIN f \cup {path} |-> IF q = path THEN what ELSE f[q]]

\* fs without directory `path`.
WithoutDir(f, path) == [q \in DOMAIN f \ {path} |-> f[q]]

\* Path.mkdir(parents=True, exist_ok=True)
Mkdir(f, path) == IF path \in DOMAIN f THEN f ELSE WithDir(f, path, EmptyDir)

\* overlap: another create_workspace call was in progress when this one
\* was made.  scoped, block: the call is made by isolated_workspace, and
\* where its caller's block is ("none", "in", "left").  error: the class of
\* the exception the call raised, "" while it has raised none.  arg: the
\* use_worktree argument of the call; use_worktree: the local variable
\* after line 42.  thrown: the caller's block raised an exception E, which
\* the generator of isolated_workspace holds while its finally clause runs.
IdleCreate ==
    [pc |-> "idle", agent |-> "", suffix |-> "", id |-> << >>,
     arg |-> NoneArg, use_worktree |-> FALSE, path |-> NoPath,
     overlap |-> FALSE, scoped |-> FALSE, block |-> "none", error |-> "",
     thrown |-> FALSE]

\* by: who made the call, <<"caller">>, <<"cleanup_all">> or
\* <<"isolated_workspace", c>>.  pc: "done" once the call has returned,
\* "raised" once an exception has left it.  caught: the except clause of
\* the call caught and logged an exception.
IdleCleanup == [pc |-> "idle", path |-> NoPath, by |-> << >>, caught |-> FALSE]

\* pruned: `git worktree prune` has been started.
IdleCleanupAll == [pc |-> "idle", tasks |-> {}, pruned |-> FALSE]

\* No list has been returned yet.
NoList == << >>

CreatesInProgress ==
    {c \in Creates : cw[c].pc \in {"probe", "wt_branch", "wt_add", "temp_probe"}}

\* user_agents.glob("*.md")
Glob(names) == {n \in names : n[2] = "md"}

\* for agent_file in dir.glob("*.md"):
\*     shutil.copy2(agent_file, agents_dir / agent_file.name)
CopyAgents(agents, dir) ==
    LET names == Glob(agent_files[dir][1])
    IN [n \in DOMAIN agents \cup names |->
           IF n \in names THEN <<dir, n>> ELSE agents[n]]

\* A mutant: the project's definitions are copied first.
_setup_agent_definitions_userlast(agents) ==
    LET project == IF agent_files[ProjectAgents] # NoDir /\ ProjectAgents # agent_dir
                   THEN CopyAgents(agents, ProjectAgents) ELSE agents
    IN IF agent_files[agent_dir] # NoDir
       THEN CopyAgents(project, agent_dir) ELSE project

\* _setup_agent_definitions on a .claude/agents directory that holds
\* `agents`: the definitions of config.agent_dir are copied if that
\* directory exists, then those of the project's directory if it exists
\* and is another path, over the ones of the same name.
_setup_agent_definitions(agents) ==
    LET user == IF agent_files[agent_dir] # NoDir
                THEN CopyAgents(agents, agent_dir) ELSE agents
    IN IF agent_files[ProjectAgents] # NoDir /\ ProjectAgents # agent_dir
       THEN CopyAgents(user, ProjectAgents) ELSE user

\* The workspace manager after construction: an empty registry, nothing
\* on disk under base_dir, no create or cleanup call made, on a machine
\* without agent directories.
WsInit ==
    /\ use_worktrees \in BOOLEAN
    /\ cleanup_on_exit \in BOOLEAN
    /\ is_git \in BOOLEAN
    /\ agent_dir = "~/.claude/agents"
    /\ agent_files = [dir \in AgentDirs |-> NoDir]
    /\ active_workspaces = << >>
    /\ fs = << >>
    /\ branches = {}
    /\ cw = [c \in Creates |-> IdleCreate]
    /\ cl = [k \in Cleanups |-> IdleCleanup]
    /\ ca = IdleCleanupAll
    /\ listed = NoList
    /\ dry_run = FALSE
    /\ max_concurrent = 1
    /\ ExecInit

\* _create_temp_workspace up to its await: the directory is made, then
\* _is_git_repo is awaited.
_create_temp_workspace(c, rec) ==
    /\ fs' = Mkdir(fs, BasePath(rec.id))
    /\ cw' = [cw EXCEPT ![c] = [rec EXCEPT !.pc = "temp_probe"]]

\* A mutant: `use_worktree or config.workspace.use_worktrees`.
UseWorktree_truthy(arg) ==
    IF arg # NoneArg /\ arg[1] THEN TRUE ELSE use_worktrees

\* use_worktree if use_worktree is not None else
\* self.config.workspace.use_worktrees
UseWorktree(arg) == IF arg # NoneArg THEN arg[1] ELSE use_worktrees

\* The use_worktree arguments of a caller that gives one only to override
\* the configuration.
UseWorktreeArgs == {NoneArg, <<~use_worktrees>>}

\* The body of create_workspace up to its first await: the id is drawn;
\* `use_worktree and await self._is_git_repo()` awaits the probe only
\* when a worktree is asked for.
Allocate(c, agent, suffix, arg, scoped) ==
    /\ cw[c].pc = "idle"
    /\ \A b \in Creates : b < c => cw[b].pc # "idle"
    /\ LET rec == [IdleCreate EXCEPT
                      !.agent = agent,
                      !.suffix = suffix,
                      !.id = WorkspaceId(agent, suffix),
                      !.arg = arg,
                      !.use_worktree = UseWorktree(arg),
                      !.overlap = CreatesInProgress # {},
                      !.scoped = scoped]
       IN IF rec.use_worktree
          THEN /\ cw' = [cw EXCEPT ![c] = [rec EXCEPT !.pc = "probe"]]
               /\ UNCHANGED fs
          ELSE _create_temp_workspace(c, rec)
    /\ UNCHANGED <<envVars, active_workspaces, branches, cl, ca, listed, execVars>>

\* create_workspace(agent_name, use_worktree=arg), called directly.
create_workspace(c, agent, suffix, arg) ==
    Allocate(c, agent, suffix, arg, FALSE)

\* `async with isolated_workspace(agent_name)` is entered:
\* create_workspace(agent_name) is awaited inside the try.
isolated_workspace(c, agent, suffix) ==
    Allocate(c, agent, suffix, NoneArg, TRUE)

\* _is_git_repo returns to create_workspace: a worktree in a repository,
\* a plain directory elsewhere.
_is_git_repo(c) ==
    /\ cw[c].pc = "probe"
    /\ IF is_git
       THEN /\ cw' = [cw EXCEPT ![c].pc = "wt_branch"]
            /\ UNCHANGED fs
       ELSE _create_temp_workspace(c, cw[c])
    /\ UNCHANGED <<envVars, active_workspaces, branches, cl, ca, listed, execVars>>

\* A mutant: the path is returned before the record is registered.
Register_unregistered(c, path, dir, ok) ==
    IF ok
    THEN /\ fs' = WithDir(fs, path,
                    [dir EXCEPT !.agents_dir = TRUE,
                                !.agents = _setup_agent_definitions(dir.agents)])
         /\ cw' = [cw EXCEPT ![c].pc = "done", ![c].path = path,
                             ![c].block = IF cw[c].scoped THEN "in" ELSE "none"]
         /\ UNCHANGED active_workspaces
    ELSE /\ fs' = WithDir(fs, path, dir)
         /\ cw' = [cw EXCEPT ![c].pc = "failed", ![c].error = "OSError"]
         /\ UNCHANGED active_workspaces

\* The rest of create_workspace once the directory is there, without an
\* await: _setup_agent_definitions makes .claude/agents and copies the
\* definitions, the record is registered and the path returned; inside
\* isolated_workspace the path is then yielded to the caller's block.  A
\* copy that raises (ok = FALSE) ends the call before the registration:
\* shutil.copy2 raises an OSError, which nothing on the way catches.
Register(c, path, dir, ok) ==
    IF ok
    THEN /\ fs' = WithDir(fs, path,
                    [dir EXCEPT !.agents_dir = TRUE,
                                !.agents = _setup_agent_definitions(dir.agents)])
         /\ active_workspaces' =
               [i \in DOMAIN active_workspaces \cup {cw[c].id} |->
                   IF i = cw[c].id THEN path ELSE active_workspaces[i]]
         /\ cw' = [cw EXCEPT ![c].pc = "done", ![c].path = path,
                             ![c].block = IF cw[c].scoped THEN "in" ELSE "none"]
    ELSE /\ fs' = WithDir(fs, path, dir)
         /\ cw' = [cw EXCEPT ![c].pc = "failed", ![c].error = "OSError"]
         /\ UNCHANGED active_workspaces

\* _create_git_worktree: the current branch has been asked for.
_create_git_worktree(c) ==
    /\ cw[c].pc = "wt_branch"
    /\ cw' = [cw EXCEPT ![c].pc = "wt_add"]
    /\ UNCHANGED <<envVars, active_workspaces, fs, branches, cl, ca, listed, execVars>>

\* git refuses `worktree add -b research/<id> <path>` when the branch
\* exists or the path holds something.
CanAddWorktree(id) ==
    /\ id \notin branches
    /\ Exists(BasePath(id)) => fs[BasePath(id)] = EmptyDir

\* `git worktree add` returns: with exit code 0 the branch and the working
\* tree (a directory with a .git file) exist and create_workspace goes
\* on; with another exit code WorkspaceError is raised; when the process
\* cannot be created, _run_command raises an OSError instead.
worktree_add(c, git, ok) ==
    /\ cw[c].pc = "wt_add"
    /\ IF git = "ok" /\ CanAddWorktree(cw[c].id)
       THEN /\ branches' = branches \cup {cw[c].id}
            /\ Register(c, BasePath(cw[c].id), [EmptyDir EXCEPT !.git_file = TRUE], ok)
       ELSE /\ cw' = [cw EXCEPT ![c].pc = "failed",
                                ![c].error = IF git = "raise" THEN "OSError"
                                             ELSE "WorkspaceError"]
            /\ UNCHANGED <<fs, branches, active_workspaces>>
    /\ UNCHANGED <<envVars, cl, ca, listed, execVars>>

\* _is_git_repo returns to _create_temp_workspace: in a repository the
\* essential files are copied into the directory, which raises an OSError
\* when the directory is gone; then create_workspace goes on (ok = FALSE:
\* a copy raises, here or in _setup_agent_definitions).
temp_probe(c, ok) ==
    /\ cw[c].pc = "temp_probe"
    /\ LET path == BasePath(cw[c].id)
       IN IF Exists(path)
          THEN Register(c, path, fs[path], ok)
          ELSE IF is_git /\ ~ok
          THEN /\ cw' = [cw EXCEPT ![c].pc = "failed", ![c].error = "OSError"]
               /\ UNCHANGED <<fs, active_workspaces>>
          ELSE Register(c, path, EmptyDir, ok)
    /\ UNCHANGED <<envVars, branches, cl, ca, listed, execVars>>

\* The paths a caller passes to cleanup_workspace: the ones create_workspace
\* returned.
ReturnedPaths == {cw[c].path : c \in {d \in Creates : cw[d].pc = "done"}}

\* _is_git_worktree: the path holds a .git file.
_is_git_worktree(path) == Exists(path) /\ fs[path].git_file

\* A mutant: the registry is rebuilt without the records made meanwhile.
Pop_clear(reg, path) == << >>

\* self.active_workspaces.pop(workspace_path.name, None)
Pop(reg, path) == [i \in DOMAIN reg \ {path.name} |-> reg[i]]

\* shutil.rmtree(path, ignore_errors=True): the directory is gone, or
\* what could not be deleted is left behind without an error.
Rmtree(f, path, rm_ok) == IF rm_ok THEN WithoutDir(f, path) ELSE f

\* A mutant: cleanup_workspace without the cleanup_on_exit test.
CleanupBody_always(k, path, by, rm_ok) ==
    IF _is_git_worktree(path)
    THEN /\ cl' = [cl EXCEPT ![k] = [IdleCleanup EXCEPT
                      !.pc = "wt_remove", !.path = path, !.by = by]]
         /\ UNCHANGED <<fs, active_workspaces>>
    ELSE /\ fs' = Rmtree(fs, path, rm_ok)
         /\ active_workspaces' = Pop(active_workspaces, path)
         /\ cl' = [cl EXCEPT ![k] = [IdleCleanup EXCEPT
                      !.pc = "done", !.path = path, !.by = by]]

\* The body of cleanup_workspace(path) up to its first await.  With
\* cleanup_on_exit off it returns at once.  A working tree is removed
\* through git, which is awaited; any other path is removed with
\* shutil.rmtree(ignore_errors=True) and its record is popped at once.
CleanupBody(k, path, by, rm_ok) ==
    IF ~cleanup_on_exit
    THEN /\ cl' = [cl EXCEPT ![k] = [IdleCleanup EXCEPT
                      !.pc = "done", !.path = path, !.by = by]]
         /\ UNCHANGED <<fs, active_workspaces>>
    ELSE IF _is_git_worktree(path)
    THEN /\ cl' = [cl EXCEPT ![k] = [IdleCleanup EXCEPT
                      !.pc = "wt_remove", !.path = path, !.by = by]]
         /\ UNCHANGED <<fs, active_workspaces>>
    ELSE /\ fs' = Rmtree(fs, path, rm_ok)
         /\ active_workspaces' = Pop(active_workspaces, path)
         /\ cl' = [cl EXCEPT ![k] = [IdleCleanup EXCEPT
                      !.pc = "done", !.path = path, !.by = by]]

\* The next cleanup_workspace call of the behaviour is call k.
NextCleanup(k) ==
    /\ cl[k].pc = "idle"
    /\ \A j \in Cleanups : j < k => cl[j].pc # "idle"

\* cleanup_workspace(path), called directly.
cleanup_workspace(k, path, rm_ok) ==
    /\ NextCleanup(k)
    /\ CleanupBody(k, path, <<"caller">>, rm_ok)
    /\ UNCHANGED <<envVars, branches, cw, ca, listed, execVars>>

\* A mutant: the cleanup follows the block without a finally clause.
leave_block_nofinally(c, k, how, rm_ok) ==
    /\ cw[c].block = "in"
    /\ NextCleanup(k)
    /\ cw' = [cw EXCEPT ![c].block = "left", ![c].thrown = (how = "raise")]
    /\ IF how = "normal"
       THEN CleanupBody(k, cw[c].path, <<"isolated_workspace", c>>, rm_ok)
       ELSE UNCHANGED <<fs, active_workspaces, cl>>
    /\ UNCHANGED <<envVars, branches, ca, listed, execVars>>

\* The caller's block of isolated_workspace is left, by its end, by a
\* return or by an exception (how): the finally clause awaits
\* cleanup_workspace(workspace).
leave_block(c, k, how, rm_ok) ==
    /\ cw[c].block = "in"
    /\ NextCleanup(k)
    /\ cw' = [cw EXCEPT ![c].block = "left", ![c].thrown = (how = "raise")]
    /\ CleanupBody(k, cw[c].path, <<"isolated_workspace", c>>, rm_ok)
    /\ UNCHANGED <<envVars, branches, ca, listed, execVars>>

\* A mutant: cleanup_workspace without its except clause.
worktree_remove_uncaught(k, git, rm_ok) ==
    /\ cl[k].pc = "wt_remove"
    /\ IF git = "raise"
       THEN /\ cl' = [cl EXCEPT ![k].pc = "raised"]
            /\ UNCHANGED fs
       ELSE /\ fs' = IF git = "ok" THEN WithoutDir(fs, cl[k].path)
                     ELSE Rmtree(fs, cl[k].path, rm_ok)
            /\ cl' = [cl EXCEPT ![k].pc = "branch_delete"]
    /\ UNCHANGED <<envVars, active_workspaces, branches, cw, ca, listed, execVars>>

\* `git worktree remove --force` returns in _remove_git_worktree.  Exit
\* code 0: the directory is gone.  Another exit code: the fallback rmtree
\* runs.  Then `git branch -D` is awaited.  When _run_command raises,
\* cleanup_workspace catches and logs the exception and returns.
worktree_remove(k, git, rm_ok) ==
    /\ cl[k].pc = "wt_remove"
    /\ IF git = "raise"
       THEN /\ cl' = [cl EXCEPT ![k].pc = "done", ![k].caught = TRUE]
            /\ UNCHANGED fs
       ELSE /\ fs' = IF git = "ok" THEN WithoutDir(fs, cl[k].path)
                     ELSE Rmtree(fs, cl[k].path, rm_ok)
            /\ cl' = [cl EXCEPT ![k].pc = "branch_delete"]
    /\ UNCHANGED <<envVars, active_workspaces, branches, cw, ca, listed, execVars>>

\* `git branch -D research/<name>` returns, its exit code ignored: the
\* branch is gone when git deleted it, and the record is popped.  When
\* _run_command raises, cleanup_workspace catches and logs the exception
\* and returns.
branch_delete(k, git) ==
    /\ cl[k].pc = "branch_delete"
    /\ IF git = "raise"
       THEN /\ cl' = [cl EXCEPT ![k].pc = "done", ![k].caught = TRUE]
            /\ UNCHANGED <<branches, active_workspaces>>
       ELSE /\ branches' = IF git = "ok" THEN branches \ {cl[k].path.name}
                           ELSE branches
            /\ active_workspaces' = Pop(active_workspaces, cl[k].path)
            /\ cl' = [cl EXCEPT ![k].pc = "done"]
    /\ UNCHANGED <<envVars, fs, cw, ca, listed, execVars>>

\* The paths of the registry: self.active_workspaces.values()
RegisteredPaths == {active_workspaces[i] : i \in DOMAIN active_workspaces}

IdleCleanups == {k \in Cleanups : cl[k].pc = "idle"}

\* The first n cleanup calls not made yet.
FirstIdle(n) == {k \in IdleCleanups : Cardinality({j \in IdleCleanups : j < k}) < n}

\* cleanup_all() up to its await: one cleanup_workspace coroutine per
\* path of the registry, handed to asyncio.gather, which runs them as
\* tasks.
cleanup_all ==
    /\ ca.pc = "idle"
    /\ Cardinality(RegisteredPaths) <= Cardinality(IdleCleanups)
    /\ LET slots == FirstIdle(Cardinality(RegisteredPaths))
           task == CHOOSE g \in [slots -> RegisteredPaths] :
                      \A j, k \in slots : j # k => g[j] # g[k]
       IN /\ cl' = [k \in Cleanups |->
                      IF k \in slots
                      THEN [IdleCleanup EXCEPT !.pc = "spawned",
                                               !.path = task[k],
                                               !.by = <<"cleanup_all">>]
                      ELSE cl[k]]
          /\ ca' = [ca EXCEPT !.pc = "gather", !.tasks = slots]
    /\ UNCHANGED <<envVars, active_workspaces, fs, branches, cw, listed, execVars>>

\* A task of cleanup_all's gather runs cleanup_workspace up to its first
\* await.
cleanup_task(k, rm_ok) ==
    /\ cl[k].pc = "spawned"
    /\ CleanupBody(k, cl[k].path, <<"cleanup_all">>, rm_ok)
    /\ UNCHANGED <<envVars, branches, cw, ca, listed, execVars>>

\* A mutant: the tasks are started and not awaited.
gathered_early ==
    /\ ca.pc = "gather"
    /\ ca' = [ca EXCEPT !.pc = IF use_worktrees THEN "prune" ELSE "done",
                        !.pruned = use_worktrees]
    /\ UNCHANGED <<envVars, active_workspaces, fs, branches, cw, cl, listed, execVars>>

\* gather returns in cleanup_all once every task is done; with
\* use_worktrees, `git worktree prune` is awaited.
gathered ==
    /\ ca.pc = "gather"
    /\ \A k \in ca.tasks : cl[k].pc = "done"
    /\ ca' = [ca EXCEPT !.pc = IF use_worktrees THEN "prune" ELSE "done",
                        !.pruned = use_worktrees]
    /\ UNCHANGED <<envVars, active_workspaces, fs, branches, cw, cl, listed, execVars>>

\* `git worktree prune` returns to cleanup_all, or _run_command raises
\* and cleanup_all with it.
worktree_prune(git) ==
    /\ ca.pc = "prune"
    /\ ca' = [ca EXCEPT !.pc = IF git = "raise" THEN "raised" ELSE "done"]
    /\ UNCHANGED <<envVars, active_workspaces, fs, branches, cw, cl, listed, execVars>>

\* str(path)
Str(path) == <<path.parent, "/", path.name>>

\* The entries of the list comprehension of list_active_workspaces: one
\* new dict per item of the registry, with the path as a string and
\* path.exists() as evaluated in the call.
Listing ==
    {[id |-> i, path |-> Str(active_workspaces[i]),
      exists |-> Exists(active_workspaces[i])] : i \in DOMAIN active_workspaces}

\* A mutant: a view of the registry is returned.
list_active_workspaces_view ==
    /\ listed = NoList
    /\ listed' = [alias |-> TRUE, items |-> {}]
    /\ UNCHANGED <<envVars, active_workspaces, fs, branches, cw, cl, ca, execVars>>

\* list_active_workspaces(): a synchronous method that returns a new
\* list (alias: the returned object is the registry itself).
list_active_workspaces ==
    /\ listed = NoList
    /\ listed' = [alias |-> FALSE, items |-> Listing]
    /\ UNCHANGED <<envVars, active_workspaces, fs, branches, cw, cl, ca, execVars>>

\* What a reader finds in a returned list.
Contents(list) == IF list.alias THEN Listing ELSE list.items

\* The steps of a create_workspace call after its first await, where
\* `git worktree add` can be started.
Creating ==
    \/ \E c \in Creates : _is_git_repo(c)
    \/ \E c \in Creates : _create_git_worktree(c)
    \/ \E c \in Creates, git \in GitExits, ok \in BOOLEAN : worktree_add(c, git, ok)
    \/ \E c \in Creates, ok \in BOOLEAN : temp_probe(c, ok)

\* The steps of a cleanup_workspace call after its first await.
Removing ==
    \/ \E k \in Cleanups, git \in GitOutcomes, rm_ok \in BOOLEAN :
          worktree_remove(k, git, rm_ok)
    \/ \E k \in Cleanups, git \in GitOutcomes : branch_delete(k, git)

\* Callers that create workspaces and clean up one of them.
WsNext ==
    \/ \E c \in Creates, agent \in Agents, suffix \in Suffixes,
          arg \in UseWorktreeArgs :
             create_workspace(c, agent, suffix, arg)
    \/ Creating
    \/ \E path \in ReturnedPaths, rm_ok \in BOOLEAN :
          cleanup_workspace(1, path, rm_ok)
    \/ Removing

WsSpec == WsInit /\ [][WsNext]_vars

\* Callers that create workspaces and call cleanup_workspace repeatedly.
RepeatNext ==
    \/ \E c \in Creates, agent \in Agents, suffix \in Suffixes,
          arg \in UseWorktreeArgs :
             create_workspace(c, agent, suffix, arg)
    \/ Creating
    \/ \E k \in Cleanups, path \in ReturnedPaths, rm_ok \in BOOLEAN :
          cleanup_workspace(k, path, rm_ok)
    \/ Removing

RepeatSpec == WsInit /\ [][RepeatNext]_vars

\* Callers that use workspaces of one agent through `async with
\* isolated_workspace`.
ScopedNext ==
    \/ \E c \in Creates, suffix \in Suffixes :
          isolated_workspace(c, "alpha", suffix)
    \/ Creating
    \/ \E c \in Creates, k \in Cleanups, how \in Exits, rm_ok \in BOOLEAN :
          leave_block(c, k, how, rm_ok)
    \/ Removing

ScopedSpec == WsInit /\ [][ScopedNext]_vars

\* The workspace manager after construction on a machine with any agent
\* directories.
SeedInit ==
    /\ use_worktrees \in BOOLEAN
    /\ cleanup_on_exit = TRUE
    /\ is_git \in BOOLEAN
    /\ agent_dir \in AgentDirs
    /\ agent_files \in [AgentDirs -> AgentDirStates]
    /\ active_workspaces = << >>
    /\ fs = << >>
    /\ branches = {}
    /\ cw = [c \in Creates |-> IdleCreate]
    /\ cl = [k \in Cleanups |-> IdleCleanup]
    /\ ca = IdleCleanupAll
    /\ listed = NoList
    /\ dry_run = FALSE
    /\ max_concurrent = 1
    /\ ExecInit

\* A caller that creates one workspace, also where `git worktree add`
\* cannot be started.
SeedNext ==
    \/ \E agent \in Agents, suffix \in Suffixes, arg \in BoolArgs :
          create_workspace(1, agent, suffix, arg)
    \/ Creating
    \/ \E c \in Creates : worktree_add(c, "raise", TRUE)

SeedSpec == SeedInit /\ [][SeedNext]_vars

\* Callers that create workspaces and tear them down with cleanup_all.
BulkNext ==
    \/ \E c \in Creates, agent \in Agents, suffix \in Suffixes,
          arg \in UseWorktreeArgs :
             create_workspace(c, agent, suffix, arg)
    \/ Creating
    \/ cleanup_all
    \/ \E k \in Cleanups, rm_ok \in BOOLEAN : cleanup_task(k, rm_ok)
    \/ Removing
    \/ gathered
    \/ \E git \in GitOutcomes : worktree_prune(git)

BulkSpec == WsInit /\ [][BulkNext]_vars

\* A caller that creates workspaces for one agent, one after the other,
\* and then tears them down with cleanup_all.
TeardownNext ==
    \/ /\ CreatesInProgress = {}
       /\ ca.pc = "idle"
       /\ \E c \in Creates, suffix \in Suffixes, arg \in UseWorktreeArgs :
             create_workspace(c, "alpha", suffix, arg)
    \/ Creating
    \/ cleanup_all
    \/ \E k \in Cleanups, rm_ok \in BOOLEAN : cleanup_task(k, rm_ok)
    \/ Removing
    \/ gathered
    \/ \E git \in GitOutcomes : worktree_prune(git)

TeardownSpec == WsInit /\ [][TeardownNext]_vars

\* A path outside base_dir whose final component is the one of `path`:
\* it names no directory on disk and was never returned by
\* create_workspace.
Elsewhere(path) == [parent |-> "elsewhere", name |-> path.name]

\* The paths a caller may pass to cleanup_workspace(workspace_path: Path):
\* any path, among them the returned ones, paths that share only their
\* name with a returned one, and a path that shares nothing.
AnyPaths ==
    ReturnedPaths \cup {Elsewhere(path) : path \in ReturnedPaths}
                  \cup {[parent |-> "elsewhere", name |-> <<"alpha", "none">>]}

\* Callers that create workspaces and call cleanup_workspace with any
\* path.
AnyPathNext ==
    \/ \E c \in Creates, agent \in Agents, suffix \in Suffixes,
          arg \in UseWorktreeArgs :
             create_workspace(c, agent, suffix, arg)
    \/ Creating
    \/ \E path \in AnyPaths, rm_ok \in BOOLEAN :
          cleanup_workspace(1, path, rm_ok)
    \/ Removing

AnyPathSpec == WsInit /\ [][AnyPathNext]_vars

\* A caller that creates a workspace and tears it down twice at once:
\* cleanup_workspace is called while cleanup_all is in progress, or
\* cleanup_all while the cleanup_workspace call is.
RaceNext ==
    \/ /\ CreatesInProgress = {}
       /\ ca.pc = "idle"
       /\ IdleCleanups = Cleanups
       /\ \E suffix \in Suffixes, arg \in UseWorktreeArgs :
             create_workspace(1, "alpha", suffix, arg)
    \/ Creating
    \/ /\ \A k \in Cleanups : cl[k].pc # "done"
       /\ cleanup_all
    \/ \E k \in Cleanups, rm_ok \in BOOLEAN : cleanup_task(k, rm_ok)
    \/ /\ ca.pc \in {"idle", "gather"}
       /\ \E k \in Cleanups, path \in ReturnedPaths, rm_ok \in BOOLEAN :
             cleanup_workspace(k, path, rm_ok)
    \/ Removing
    \/ gathered
    \/ \E git \in GitOutcomes : worktree_prune(git)

RaceSpec == WsInit /\ [][RaceNext]_vars

\* A caller that creates workspaces one after the other, cleans one of
\* them up, and at some point lists the registry.
ListNext ==
    \/ /\ CreatesInProgress = {}
       /\ \E c \in Creates, suffix \in Suffixes, arg \in UseWorktreeArgs :
             create_workspace(c, "alpha", suffix, arg)
    \/ Creating
    \/ list_active_workspaces
    \/ \E path \in ReturnedPaths, rm_ok \in BOOLEAN :
          cleanup_workspace(1, path, rm_ok)
    \/ Removing

ListSpec == WsInit /\ [][ListNext]_vars

(* ------------------------------ claims -------------------------------- *)

\* C1: within one execute_batch call with concurrency limit N (the
\* max_concurrent argument, or the configured default when none is given),
\* the number of its entries that hold a permit and have an external
\* process in flight is at most N in every reachable state.
C1_BatchBound ==
    \A b \in Batches : Cardinality(InFlight(b)) <= limit[b]

\* More prompts than permits, every permit in use, an entry waiting.
C1_Witness ==
    \E b \in Batches :
        /\ Len(entries[b]) > limit[b]
        /\ limit[b] >= 2
        /\ Cardinality(InFlight(b)) = limit[b]
        /\ waiters[b] # << >>

\* C2 as stated: over all callers of the interface, no more than the
\* configured max_concurrent external processes run at once.
C2_GlobalBound ==
    Cardinality(Running) <= max_concurrent

\* C2 amended: the processes running at once are bounded by the sum of the
\* limits of the execute_batch calls in progress plus the number of direct
\* execute calls in progress, each batch call bounding only its own
\* entries.
C2_PerCallerBound ==
    Cardinality(Running) <=
        SumOver(limit, {b \in Batches : bstate[b] = "gathering"})
        + Cardinality({t \in DirectCalls : pc[t] \in Suspended})

\* Two execute_batch calls in progress, each with a process in flight,
\* together more than the configured max_concurrent.
C2_Witness ==
    \E a, b \in Batches :
        /\ a # b
        /\ InFlight(a) # {}
        /\ InFlight(b) # {}
        /\ Cardinality(Running) > max_concurrent

\* C3: in every state where ClaudeTimeoutError has reached the caller, the
\* process of that call has been killed and has exited, and the error
\* carries the timeout the call used.
C3_TimeoutAfterReap ==
    \A t \in Tasks :
        outcome[t].kind = "ClaudeTimeoutError" =>
            /\ proc[t] = "exited"
            /\ returncode[t] = <<SIGKILL>>
            /\ outcome[t].timeout_seconds = timeout[t]

\* A call with the caller's timeout of 30 s has raised ClaudeTimeoutError.
C3_Witness ==
    \E t \in Tasks :
        /\ outcome[t].kind = "ClaudeTimeoutError"
        /\ outcome[t].timeout_seconds = 30
        /\ proc[t] = "exited"

\* C4 as stated: no state is reachable where an execute call has ended and
\* the process it started is still alive.
C4_NoOrphan ==
    \A t \in Tasks : pc[t] = "done" => t \notin Alive

\* C5: execute_batch never raises because of an entry, and when it returns
\* every entry has run to completion and its slot holds its result or the
\* error it raised.
C5_BatchNeverAborts ==
    \A b \in Batches :
        /\ bstate[b] # "raised"
        /\ bstate[b] = "returned" =>
              /\ Len(returned[b]) = Len(entries[b])
              /\ \A i \in 1..Len(entries[b]) :
                    /\ pc[entries[b][i]] = "done"
                    /\ returned[b][i].kind \in
                          {"ClaudeResult", "ClaudeTimeoutError", "OSError"}

\* A batch has returned with a timeout in one slot, a process-creation
\* failure in another and a result in a third.
C5_Witness ==
    \E b \in Batches :
        /\ bstate[b] = "returned"
        /\ \E i, j, k \in 1..Len(returned[b]) :
              /\ returned[b][i].kind = "ClaudeTimeoutError"
              /\ returned[b][j].kind = "OSError"
              /\ returned[b][k].kind = "ClaudeResult"

\* C6: the list execute_batch returns is as long as the prompts list, and
\* its element at position i is the outcome of the entry at position i (a
\* result being the one of the prompt at position i), in whatever order
\* the entries completed.
C6_PositionalOrder ==
    \A b \in Batches :
        bstate[b] = "returned" =>
            /\ Len(returned[b]) = Len(entries[b])
            /\ \A i \in 1..Len(entries[b]) :
                  /\ returned[b][i] = outcome[entries[b][i]]
                  /\ returned[b][i].kind = "ClaudeResult" =>
                        returned[b][i].command
                            = _build_command(prompt[entries[b][i]])

\* A batch of three has returned whose first entry completed last, after
\* timing out, while the other two returned results.
C6_Witness ==
    \E b \in Batches :
        /\ bstate[b] = "returned"
        /\ Len(entries[b]) = 3
        /\ completed[b][3] = entries[b][1]
        /\ returned[b][1].kind = "ClaudeTimeoutError"
        /\ returned[b][2].kind = "ClaudeResult"
        /\ returned[b][3].kind = "ClaudeResult"

\* C7: the step in which the timeout of one call expires kills the process
\* of that call only: every other task, its process and its outcome are
\* left as they were, and a process is only ever killed by the timeout of
\* its own call.
C7_TimeoutKillsOne ==
    [][ /\ \A t \in Tasks :
              (pc[t] = "communicate" /\ pc'[t] = "killing") =>
                  \A u \in Tasks \ {t} :
                      /\ proc'[u] = proc[u]
                      /\ pc'[u] = pc[u]
                      /\ outcome'[u] = outcome[u]
        /\ \A u \in Tasks :
              (proc[u] = "running" /\ proc'[u] = "killed") =>
                  (pc[u] = "communicate" /\ pc'[u] = "killing")
      ]_vars

\* One entry of a batch has timed out and has been killed while another
\* entry of the same batch is still running.
C7_Witness ==
    \E t, u \in Tasks :
        /\ t # u
        /\ owner[t] # Direct
        /\ owner[t] = owner[u]
        /\ pc[t] = "killing"
        /\ proc[t] = "killed"
        /\ pc[u] = "communicate"
        /\ proc[u] = "running"

\* C8: for a process that exits before the timeout, whatever its exit
\* code, execute returns a result (it does not raise) whose exit code is
\* the process's and whose success flag is true exactly when it is 0.
C8_ExitCodeReturned ==
    \A t \in Tasks :
        ( /\ pc[t] = "done"
          /\ proc[t] = "exited"
          /\ outcome[t].kind \notin {"ClaudeTimeoutError", "CancelledError"} ) =>
            /\ outcome[t].kind = "ClaudeResult"
            /\ outcome[t].exit_code = returncode[t][1]
            /\ outcome[t].success = (returncode[t][1] = 0)

\* A process has exited with a non-zero code and execute has returned.
C8_Witness ==
    \E t \in Tasks :
        /\ pc[t] = "done"
        /\ proc[t] = "exited"
        /\ returncode[t] = <<1>>
        /\ outcome[t].kind = "ClaudeResult"
        /\ ~outcome[t].success

\* C9: in dry-run mode no process is ever spawned, by the construction of
\* the interface or by an execute call, and every execute call that ends
\* without being cancelled returns success=True with exit code 0.
C9_DryRun ==
    dry_run =>
        /\ probes = 0
        /\ \A t \in Tasks :
              /\ proc[t] = "none"
              /\ outcome[t].kind \notin {"none", "CancelledError"} =>
                    /\ outcome[t].kind = "ClaudeResult"
                    /\ outcome[t].success
                    /\ outcome[t].exit_code = 0

\* Dry run: a batch has returned and a direct call has returned.
C9_Witness ==
    /\ dry_run
    /\ \E b \in Batches : bstate[b] = "returned" /\ Len(returned[b]) >= 2
    /\ \E t \in DirectCalls : outcome[t].kind = "ClaudeResult" /\ timeout[t] = 30

(* C10 as stated: the ids of the create_workspace calls that have returned
   are pairwise distinct and so are their paths.  It fails when two calls
   for one agent draw the same suffix: a plain directory is made with
   exist_ok=True and the second registration overwrites the first. *)
C10_AlwaysDistinct ==
    \A c, d \in Creates :
        (c # d /\ cw[c].pc = "done" /\ cw[d].pc = "done") =>
            /\ cw[c].id # cw[d].id
            /\ cw[c].path # cw[d].path

(* C10: create_workspace calls that differ in the agent name or in the
   suffix they drew return pairwise distinct ids and pairwise distinct
   paths, and the directory of every call that has returned exists until
   a cleanup_workspace call is made for its path. *)
C10_DistinctDraws ==
    /\ \A c, d \in Creates :
          (/\ c # d
           /\ cw[c].pc = "done"
           /\ cw[d].pc = "done"
           /\ <<cw[c].agent, cw[c].suffix>> # <<cw[d].agent, cw[d].suffix>>) =>
              /\ cw[c].id # cw[d].id
              /\ cw[c].path # cw[d].path
    /\ \A c \in Creates :
          cw[c].pc = "done" =>
              \/ Exists(cw[c].path)
              \/ \E k \in Cleanups : cl[k].pc # "idle" /\ cl[k].path = cw[c].path

\* Two calls for one agent, the second started while the first was in
\* progress, have returned different ids and paths, one a plain directory
\* and one a working tree, and both directories exist.
C10_Witness ==
    /\ cw[1].pc = "done"
    /\ cw[2].pc = "done"
    /\ cw[2].overlap
    /\ cw[1].agent = cw[2].agent
    /\ cw[1].id # cw[2].id
    /\ cw[1].path # cw[2].path
    /\ Exists(cw[1].path)
    /\ Exists(cw[2].path)
    /\ fs[cw[1].path].git_file # fs[cw[2].path].git_file
    /\ \A k \in Cleanups : cl[k].pc = "idle"

\* A cleanup_workspace call has been made for the path.
CleanupCalled(path) == \E k \in Cleanups : cl[k].pc # "idle" /\ cl[k].path = path

(* C11: in every reachable state every record of the registry has a path
   that exists on disk, and no two records have the same path.  The code
   removes a working tree at the first await of _remove_git_worktree and
   pops the record only after `git branch -D` has returned, and not at all
   when that command raises. *)
C11_RecordsExist ==
    /\ \A i \in DOMAIN active_workspaces : Exists(active_workspaces[i])
    /\ \A i, j \in DOMAIN active_workspaces :
          i # j => active_workspaces[i] # active_workspaces[j]

(* C12: in every state another task can observe, every directory and
   every branch the manager created has a registry record.  The code makes
   the plain directory before the await in _create_temp_workspace and
   registers it after, and leaves it behind when a later copy raises. *)
C12_NoUnregisteredBacking ==
    /\ \A path \in DOMAIN fs :
          /\ path.name \in DOMAIN active_workspaces
          /\ active_workspaces[path.name] = path
    /\ \A id \in branches : id \in DOMAIN active_workspaces

(* C13: from the moment create_workspace returns a path p, and until
   cleanup_workspace is called for p, the registry maps the generated id
   to p and the directory p exists with its .claude/agents
   subdirectory. *)
C13_RegisteredOnReturn ==
    \A c \in Creates :
        (cw[c].pc = "done" /\ ~CleanupCalled(cw[c].path)) =>
            /\ cw[c].id \in DOMAIN active_workspaces
            /\ active_workspaces[cw[c].id] = cw[c].path
            /\ Exists(cw[c].path)
            /\ fs[cw[c].path].agents_dir

\* A working tree and a plain directory have been returned, both are
\* registered and seeded, and no cleanup has been called.
C13_Witness ==
    /\ \A k \in Cleanups : cl[k].pc = "idle"
    /\ \A c \in Creates :
          /\ cw[c].pc = "done"
          /\ active_workspaces[cw[c].id] = cw[c].path
          /\ fs[cw[c].path].agents_dir
    /\ \E c, d \in Creates :
          fs[cw[c].path].git_file /\ ~fs[cw[d].path].git_file

\* Call k of cleanup_workspace returns in this step.
Returns(k) == cl[k].pc # "done" /\ cl'[k].pc = "done"

(* C14: with cleanup enabled, the path does not exist when
   cleanup_workspace(p) returns, and a cleanup_workspace(p) that follows a
   returned one returns at once without a change to the disk, the
   branches or the registry.  In the code a git command that raises leaves
   the working tree in place, rmtree(ignore_errors=True) can leave files,
   and the second call then removes what the first left. *)
C14_RemovedAndIdempotent ==
    [][cleanup_on_exit =>
          /\ \A k \in Cleanups : Returns(k) => cl'[k].path \notin DOMAIN fs'
          /\ \A j, k \in Cleanups :
                (/\ cl[j].pc = "done"
                 /\ cl[k].pc = "idle"
                 /\ cl'[k].pc # "idle"
                 /\ cl'[k].path = cl[j].path) =>
                    /\ cl'[k].pc = "done"
                    /\ fs' = fs
                    /\ branches' = branches
                    /\ active_workspaces' = active_workspaces]_vars

(* C15: with cleanup enabled, the registry has no entry for the path's
   workspace id when cleanup_workspace(p) returns, whatever became of the
   removal.  In the code the pop follows the removal inside the try, so a
   git command that raises skips it. *)
C15_UnregisteredOnReturn ==
    [][cleanup_on_exit =>
          \A k \in Cleanups :
              Returns(k) => cl'[k].path.name \notin DOMAIN active_workspaces']_vars

\* The cleanup_workspace calls made by the isolated_workspace of call c.
CleanupsOf(c) ==
    {k \in Cleanups : cl[k].pc # "idle" /\ cl[k].by = <<"isolated_workspace", c>>}

(* C16: once the caller's block of an isolated_workspace has been left,
   by its end, a return or an exception, cleanup_workspace has been called
   exactly once by it, for the workspace it created; before that it has
   not been called. *)
C16_CleanupOnEveryExit ==
    \A c \in Creates :
        cw[c].scoped =>
            IF cw[c].block = "left"
            THEN /\ Cardinality(CleanupsOf(c)) = 1
                 /\ \A k \in CleanupsOf(c) : cl[k].path = cw[c].path
            ELSE CleanupsOf(c) = {}

\* Two blocks have been left, each isolated_workspace has called
\* cleanup_workspace for its own working tree, and both are gone.
C16_Witness ==
    /\ \A c \in Creates :
          /\ cw[c].block = "left"
          /\ \E k \in CleanupsOf(c) : cl[k].pc = "done" /\ ~cl[k].caught
          /\ ~Exists(cw[c].path)
          /\ cw[c].id \notin DOMAIN active_workspaces
    /\ cw[1].path # cw[2].path
    /\ is_git /\ use_worktrees /\ cleanup_on_exit

\* The paths cleanup_all made a cleanup task for.
TornDown(tasks, calls) == {calls[k].path : k \in tasks}

(* C17: cleanup_all makes a teardown task for every workspace registered
   when it is called, it goes on only when every task has ended, and,
   with cleanup enabled, no create_workspace in progress, no workspace
   returned since it was called and no id drawn twice, the registry is
   empty when it ends.  In the code a task whose git command raised
   leaves its record (C15). *)
C17_BulkTeardown ==
    [][/\ (ca.pc = "idle" /\ ca'.pc = "gather") =>
              TornDown(ca'.tasks, cl') = RegisteredPaths
       /\ (ca.pc = "gather" /\ ca'.pc # "gather") =>
              \A k \in ca.tasks : cl[k].pc = "done"
       /\ (/\ ca.pc \in {"gather", "prune"}
           /\ ca'.pc \in {"done", "raised"}
           /\ cleanup_on_exit
           /\ CreatesInProgress = {}
           /\ ReturnedPaths \subseteq TornDown(ca.tasks, cl)
           /\ \A c, d \in Creates :
                 (c # d /\ cw[c].pc # "idle") => cw[c].id # cw[d].id) =>
              DOMAIN active_workspaces' = {}]_vars

(* C18: with cleanup-on-exit disabled cleanup_workspace changes nothing:
   every workspace that create_workspace returned keeps its directory,
   its branch if it is a working tree, and its record, also after
   cleanup_workspace has been called for its path. *)
C18_DisabledCleanupKeeps ==
    ~cleanup_on_exit =>
        \A c \in Creates :
            cw[c].pc = "done" =>
                /\ Exists(cw[c].path)
                /\ fs[cw[c].path].git_file => cw[c].id \in branches
                /\ cw[c].id \in DOMAIN active_workspaces
                /\ active_workspaces[cw[c].id] = cw[c].path

\* With cleanup disabled, cleanup_workspace has returned for a working
\* tree, which is still on disk with its branch and its record.
C18_Witness ==
    /\ ~cleanup_on_exit
    /\ \E k \in Cleanups :
          /\ cl[k].pc = "done"
          /\ Exists(cl[k].path)
          /\ fs[cl[k].path].git_file
          /\ cl[k].path.name \in branches
          /\ cl[k].path.name \in DOMAIN active_workspaces

(* C19: when cleanup_workspace returns from `git branch -D` for a working
   tree, whether the deletion worked or not, the removed directory is
   still removed and the record is unregistered.  In the code a
   `git branch -D` that cannot be started raises in _run_command and the
   pop is skipped (C15). *)
C19_BranchFailureNotFatal ==
    [][cleanup_on_exit =>
          \A k \in Cleanups :
              (cl[k].pc = "branch_delete" /\ Returns(k)) =>
                  /\ fs' = fs
                  /\ cl'[k].path.name \notin DOMAIN active_workspaces']_vars

\* The ids create_workspace can generate.
Ids == {WorkspaceId(agent, suffix) : agent \in Agents, suffix \in Suffixes}

\* Where the workspace of an id is in UNALLOCATED (0), ALLOCATING (1),
\* ACTIVE (2), CLEANING (3), REMOVED (4): registered is ACTIVE, or CLEANING
\* while a cleanup_workspace call for its path is in progress; not
\* registered is REMOVED once such a call has returned, else ALLOCATING
\* once a create_workspace call has drawn the id.
State(id) ==
    LET calls == {k \in Cleanups : cl[k].pc # "idle" /\ cl[k].path = BasePath(id)}
        busy == \E k \in calls : cl[k].pc # "done"
    IN IF id \in DOMAIN active_workspaces
       THEN IF busy THEN 3 ELSE 2
       ELSE IF busy THEN 3
       ELSE IF calls # {} THEN 4
       ELSE IF \E c \in Creates : cw[c].pc # "idle" /\ cw[c].id = id THEN 1
       ELSE 0

\* No two create_workspace calls have drawn the same id.
NoRepeatedDraw ==
    \A c, d \in Creates : (c # d /\ cw[c].pc # "idle") => cw[c].id # cw[d].id

(* C20: as long as no id is drawn twice, no workspace goes back in
   UNALLOCATED -> ALLOCATING -> ACTIVE -> CLEANING -> REMOVED, and an id
   that has reached REMOVED is not registered again.  In the code a
   cleanup_workspace whose git command raised returns with the record
   still registered (C15): the workspace is back from CLEANING to
   ACTIVE. *)
C20_ForwardOnly ==
    [][NoRepeatedDraw' =>
          \A id \in Ids :
              /\ State(id)' >= State(id)
              /\ State(id) = 4 => id \notin DOMAIN active_workspaces']_vars

(* C21: a create_workspace call that fails while it makes the directory
   or the working tree is aborted with a WorkspaceError, and the step on
   which it fails leaves the registry as it was.  In the code only a
   non-zero exit code of `git worktree add` is turned into a
   WorkspaceError; an OSError of a copy or of _run_command reaches the
   caller as it is. *)
C21_FailureIsWorkspaceError ==
    [][\A c \in Creates :
          (cw[c].pc # "failed" /\ cw'[c].pc = "failed") =>
              /\ cw'[c].error = "WorkspaceError"
              /\ active_workspaces' = active_workspaces]_vars

\* A step that ends the execute call of task t with an error other than
\* ClaudeTimeoutError and CancelledError while its killed process lives on.
GivesUpOn(t) ==
    /\ Next
    /\ proc'[t] = "killed"
    /\ pc'[t] = "done"
    /\ outcome'[t].kind \notin {"ClaudeTimeoutError", "CancelledError"}

(* C22: while execute waits for a process it has killed on timeout, it
   can give up with an error of another kind than ClaudeTimeoutError, so a
   process that does not die does not make it wait forever.  In the code
   `await process.wait()` has no timeout: only the death of the process
   ends the call. *)
C22_KillWaitGivesUp ==
    \A t \in Tasks : pc[t] = "killing" => ENABLED GivesUpOn(t)

(* C28: an execute call uses the timeout its caller gave, whatever its
   value, and DefaultTimeout only when the caller gave none.  In the code
   `timeout or default` also replaces a given 0 by the default. *)
C28_GivenTimeoutUsed ==
    \A t \in Tasks :
        pc[t] # "free" =>
            timeout[t] = IF timeout_arg[t] # NoneArg THEN timeout_arg[t][1]
                         ELSE DefaultTimeout

(* C23: no update of the registry is lost.  After every step, a workspace
   whose create_workspace has returned and for whose path no
   cleanup_workspace has been called is registered under its id; and a
   step changes the registry only at the key of the call that takes it: a
   record appears, or changes, only at the id of the create_workspace
   call that returns in that step, and disappears only at the name of the
   path of the cleanup_workspace call that acts in that step. *)
C23_NoLostUpdate ==
    [][/\ \A c \in Creates :
             (cw'[c].pc = "done" /\
              \A k \in Cleanups : cl'[k].pc = "idle" \/ cl'[k].path # cw'[c].path) =>
                 /\ cw'[c].id \in DOMAIN active_workspaces'
                 /\ active_workspaces'[cw'[c].id] = cw'[c].path
       /\ \A id \in DOMAIN active_workspaces' :
             (id \notin DOMAIN active_workspaces \/
              active_workspaces'[id] # active_workspaces[id]) =>
                 \E c \in Creates :
                     cw[c].pc # "done" /\ cw'[c].pc = "done" /\ cw'[c].id = id
       /\ \A id \in DOMAIN active_workspaces \ DOMAIN active_workspaces' :
             \E k \in Cleanups : cl'[k] # cl[k] /\ cl'[k].path.name = id]_vars

\* Two overlapping create_workspace calls have returned different ids, the
\* workspace of the first has been cleaned up and unregistered, and the
\* second, for which no cleanup has been called, is still registered.
C23_Witness ==
    /\ cw[1].pc = "done" /\ cw[2].pc = "done"
    /\ cw[2].overlap
    /\ cw[1].id # cw[2].id
    /\ \E k \in Cleanups :
          cl[k].pc = "done" /\ cl[k].path = cw[1].path /\ ~cl[k].caught
    /\ cleanup_on_exit
    /\ ~CleanupCalled(cw[2].path)
    /\ cw[1].id \notin DOMAIN active_workspaces
    /\ cw[2].id \in DOMAIN active_workspaces

(* C24: when create_workspace has returned, the .claude/agents directory
   of the workspace holds a copy of every definition file, a file named *.md, of the
   user-level directory config.agent_dir and of the project-level
   directory .claude/agents, and a name found in both has the content of
   the project's file. *)
C24_SeededProjectWins ==
    \A c \in Creates :
        cw[c].pc = "done" =>
            LET agents == fs[cw[c].path].agents
            IN /\ \A dir \in {agent_dir, ProjectAgents} :
                     agent_files[dir] # NoDir =>
                         Glob(agent_files[dir][1]) \subseteq DOMAIN agents
               /\ agent_files[ProjectAgents] # NoDir =>
                     \A n \in Glob(agent_files[ProjectAgents][1]) :
                         agents[n] = <<ProjectAgents, n>>
               /\ agent_files[agent_dir] # NoDir =>
                     \A n \in Glob(agent_files[agent_dir][1]) :
                         \/ agents[n] = <<agent_dir, n>>
                         \/ /\ agent_files[ProjectAgents] # NoDir
                            /\ n \in agent_files[ProjectAgents][1]

\* A workspace has been seeded from two different directories that both
\* hold scout.md, the user's one also critic.md and a file that is no
\* definition: the project's scout.md and the user's critic.md are there.
C24_Witness ==
    /\ cw[1].pc = "done"
    /\ agent_dir # ProjectAgents
    /\ agent_files[agent_dir] = <<FileNames>>
    /\ agent_files[ProjectAgents] = <<{<<"scout", "md">>}>>
    /\ fs[cw[1].path].agents[<<"scout", "md">>] = <<ProjectAgents, <<"scout", "md">>>>
    /\ fs[cw[1].path].agents[<<"critic", "md">>] = <<agent_dir, <<"critic", "md">>>>
    /\ <<"notes", "txt">> \notin DOMAIN fs[cw[1].path].agents

(* C25: outside dry-run mode the construction of the interface runs the
   version probe exactly once, and it raises ClaudeNotFoundError exactly
   when the binary is missing, the probe exits with a non-zero code or
   the probe times out. *)
C25_ProbedOnce ==
    (iface # "unbuilt" /\ ~dry_run) =>
        /\ probes = 1
        /\ probed \in ProbeOutcomes
        /\ iface = "notfound" <=> probed \in {"missing", "nonzero", "timeout"}
        /\ iface = "ready" <=> probed = "ok"

\* The construction has raised ClaudeNotFoundError after one probe that
\* timed out.
C25_Witness ==
    /\ ~dry_run
    /\ iface = "notfound"
    /\ probed = "timeout"
    /\ probes = 1

(* C26: the ceiling N of an execute_batch call is reached, not only
   respected: while the call is in progress every permit that no entry
   holds is free, so N entries hold one whenever none is free, and with
   more prompts than N a state is reached where exactly N processes are
   in flight while an entry waits for a permit. *)
C26_PermitsConserved ==
    \A b \in Batches :
        bstate[b] = "gathering" =>
            Cardinality(Holders(b)) + permits[b] = limit[b]

\* A batch of more prompts than its ceiling N: an entry has completed and
\* released its permit, N processes are running again and an entry still
\* waits for a permit.
C26_Witness ==
    \E b \in Batches :
        /\ bstate[b] = "gathering"
        /\ Len(entries[b]) > limit[b]
        /\ completed[b] # << >>
        /\ Cardinality(InFlight(b)) = limit[b]
        /\ \A t \in InFlight(b) : proc[t] = "running" /\ pc[t] = "communicate"
        /\ \E t \in Range(entries[b]) : pc[t] = "waiting"

(* C27: on a running event loop, where every process that does not exit
   reaches the timeout of its call, every execute_batch call in progress
   ends: unless it is cancelled it returns a list with all its slots
   filled.  In the code an entry whose process has reached its timeout
   waits for the killed process without a bound (C22), holding its
   permit. *)
C27_BatchTerminates ==
    \A b \in Batches :
        (bstate[b] = "gathering") ~>
            \/ bstate[b] = "cancelled"
            \/ /\ bstate[b] = "returned"
               /\ Len(returned[b]) = Len(entries[b])

(* C29: create_workspace makes a working tree on the new branch
   research/<id> exactly when versioned isolation is requested, by the
   use_worktree argument or, when none is given, by the configuration,
   and the current directory is a git repository; otherwise it makes a
   plain directory, and no branch exists. *)
C29_WorktreeWhenRequested ==
    \A c \in Creates :
        LET requested == IF cw[c].arg # NoneArg THEN cw[c].arg[1]
                         ELSE use_worktrees
        IN /\ cw[c].id \in branches => requested /\ is_git
           /\ cw[c].pc = "done" =>
                 IF requested /\ is_git
                 THEN fs[cw[c].path].git_file /\ cw[c].id \in branches
                 ELSE ~fs[cw[c].path].git_file /\ branches = {}

\* With use_worktrees off in the configuration, a call with
\* use_worktree=True in a git repository has returned a working tree on
\* its new branch.
C29_Witness ==
    /\ cw[1].pc = "done"
    /\ cw[1].arg = <<TRUE>>
    /\ ~use_worktrees
    /\ is_git
    /\ fs[cw[1].path].git_file
    /\ branches = {cw[1].id}

(* C30 as stated: cleanup_all has started `git worktree prune` whenever
   it ends, and only after every teardown task it started has ended. *)
C30_AlwaysPrunes ==
    /\ ca.pc \in {"prune", "done", "raised"} =>
          \A k \in ca.tasks : cl[k].pc = "done"
    /\ ca.pc \in {"done", "raised"} => ca.pruned

(* C30 amended: cleanup_all starts `git worktree prune` at its end
   exactly when config.workspace.use_worktrees is on, and only after
   every teardown task it started has ended; with use_worktrees off it
   ends without a prune. *)
C30_PrunesWhenConfigured ==
    /\ ca.pc \in {"prune", "done", "raised"} =>
          /\ \A k \in ca.tasks : cl[k].pc = "done"
          /\ ca.pruned <=> use_worktrees
    /\ ca.pc \in {"prune", "raised"} => use_worktrees
    /\ ca.pc \in {"idle", "gather"} => ~ca.pruned

\* cleanup_all has torn down two workspaces, one of them a working tree,
\* and has ended after the prune.
C30_Witness ==
    /\ ca.pc = "done"
    /\ ca.pruned
    /\ Cardinality(ca.tasks) = 2
    /\ \A k \in ca.tasks : cl[k].pc = "done"
    /\ \E k \in ca.tasks : cl[k].path.name \notin branches /\ ~Exists(cl[k].path)
    /\ active_workspaces = << >>

\* What leaves `async with isolated_workspace(...)` of call c once its
\* finally clause has run: an exception that left cleanup_workspace
\* replaces the pending one; else the generator re-raises the exception E
\* of the block; else nothing is raised.
Propagated(c) ==
    IF \E k \in CleanupsOf(c) : cl[k].pc = "raised" THEN "cleanup error"
    ELSE IF cw[c].thrown THEN "E"
    ELSE "none"

(* C31: when the caller's block of isolated_workspace raises E,
   cleanup_workspace is called for the workspace, no exception leaves
   that call, also when its git command could not be started, and once
   it has returned E itself leaves the with statement. *)
C31_ErrorPropagates ==
    \A c \in Creates :
        cw[c].thrown =>
            /\ CleanupsOf(c) # {}
            /\ \A k \in CleanupsOf(c) :
                  /\ cl[k].path = cw[c].path
                  /\ cl[k].pc # "raised"
                  /\ cl[k].pc = "done" => Propagated(c) = "E"

\* A block raised E, the git command of its cleanup could not be started,
\* cleanup_workspace caught that and returned, and E propagates.
C31_Witness ==
    \E c \in Creates :
        /\ cw[c].thrown
        /\ \E k \in CleanupsOf(c) : cl[k].pc = "done" /\ cl[k].caught
        /\ Exists(cw[c].path)
        /\ Propagated(c) = "E"

(* C32: a record leaves the registry only in a step of a
   cleanup_workspace call whose path is the registered path of that
   record; a call with any other path, also one with the same final
   component, leaves every record in place.  In the code the record is
   popped by workspace_path.name. *)
C32_OnlyRegisteredPath ==
    [][\A i \in DOMAIN active_workspaces \ DOMAIN active_workspaces' :
          \E k \in Cleanups :
              /\ cl'[k] # cl[k]
              /\ cl'[k].path = active_workspaces[i]]_vars

\* Both teardowns of the workspace at `path` have completed: cleanup_all
\* with a task for it, and a cleanup_workspace call of the caller.
BothComplete(path) ==
    /\ ca.pc \in {"done", "raised"}
    /\ \E j \in ca.tasks : cl[j].path = path
    /\ \E k \in Cleanups :
          /\ cl[k].by = <<"caller">>
          /\ cl[k].path = path
          /\ cl[k].pc \in {"done", "raised"}

(* C33: with cleanup enabled, when cleanup_all and a cleanup_workspace
   call have torn down the same workspace concurrently and both have
   completed, neither has raised, the directory is gone and the record
   is unregistered.  In the code a git command that cannot be started
   leaves the record (C15) or makes cleanup_all raise, and a failed
   rmtree leaves the directory (C14). *)
C33_ConcurrentTeardown ==
    cleanup_on_exit =>
        \A path \in ReturnedPaths :
            BothComplete(path) =>
                /\ ca.pc = "done"
                /\ \A k \in Cleanups : cl[k].pc # "raised"
                /\ ~Exists(path)
                /\ path.name \notin DOMAIN active_workspaces

(* C34: the list returned by list_active_workspaces has one entry, with
   id, path and existence flag, per record of the registry at the call,
   and no later step of a create_workspace or cleanup_workspace call
   changes what a returned list holds. *)
C34_Snapshot ==
    [][/\ (listed = NoList /\ listed' # NoList) =>
             /\ Contents(listed') = Listing
             /\ Cardinality(Contents(listed')) =
                   Cardinality(DOMAIN active_workspaces)
             /\ \A i \in DOMAIN active_workspaces :
                   \E e \in Contents(listed') :
                       /\ e.id = i
                       /\ e.path = Str(BasePath(i))
                       /\ e.exists = (BasePath(i) \in DOMAIN fs)
       /\ listed # NoList => Contents(listed)' = Contents(listed)]_vars

\* A list was returned with a workspace that has been cleaned up since,
\* and without the workspace that has been created since.
C34_Witness ==
    /\ listed # NoList
    /\ \E e \in Contents(listed) :
          e.exists /\ e.id \notin DOMAIN active_workspaces
    /\ \E i \in DOMAIN active_workspaces :
          /\ Exists(active_workspaces[i])
          /\ \A e \in Contents(listed) : e.id # i

\* create_subprocess_exec(*cmd, ...) has been called for task t.
Invoked(t) == pc[t] = "creating" \/ proc[t] # "none"

\* The argument vector of the process of task t: cmd, built by
\* _build_command at the top of execute, is passed to
\* create_subprocess_exec element by element, without a shell.
Argv(t) == _build_command(prompt[t])

(* C35: every process execute starts has the argument vector
   [cliPath, "-p", prompt]: exactly three elements, the third being the
   whole prompt of the call, also when it holds blanks or quotes. *)
C35_ArgvVerbatim ==
    \A t \in Tasks :
        Invoked(t) =>
            /\ Len(Argv(t)) = 3
            /\ Argv(t)[1] = CliPath
            /\ Argv(t)[2] = "-p"
            /\ Argv(t)[3] = prompt[t]

\* A direct call and a batch entry run processes whose prompts hold a
\* blank, one of them also a quote.
C35_Witness ==
    \E t, u \in Tasks :
        /\ owner[t] = Direct /\ owner[u] # Direct
        /\ proc[t] = "running" /\ proc[u] = "running"
        /\ Argv(t)[3] = <<"a", " ", "'">>
        /\ Argv(u)[3] = <<"q", " ", "1">>

(* C36: test_connection never raises: whatever execute ended with, a
   result with exit code 0 or another, a ClaudeTimeoutError or the
   OSError of a process that could not be created, it returns a boolean,
   and it returns True only when the result is a success whose output
   holds "successful". *)
C36_TestConnection ==
    connection # NoConnection =>
        /\ connection.kind = "return"
        /\ connection.value \in BOOLEAN
        /\ connection.value =>
              /\ outcome[connection.call].kind = "ClaudeResult"
              /\ outcome[connection.call].success
              /\ Contains(Lower(connection.output), Expected)

\* A test_connection call has returned True after one that returned False
\* because execute raised ClaudeTimeoutError.
C36_Witness ==
    /\ connection # NoConnection
    /\ connection.call = 2
    /\ connection.value
    /\ connection.output = <<"SUCCESSFUL">>
    /\ outcome[1].kind = "ClaudeTimeoutError"
    /\ outcome[1].timeout_seconds = ConnectionTimeout

====
